---- MODULE Spec2Model ----
(***************************************************************************)
(* Model of goreplay's tcp.Packet (src/tcp/tcp_packet.go): ParsePacket,    *)
(* which builds a Packet record from a decoded gopacket.Packet, and the    *)
(* accessors of the record (Version, IHL, Length, SrcIP, DestIP, Src, Dst, *)
(* SYNOptions, Flag, String).                                              *)
(*                                                                         *)
(* A decoded frame owns its layers.  The record embeds *layers.TCP, a      *)
(* pointer to the frame's TCP layer, so the record's DataOffset and        *)
(* Payload are read through that pointer; Lost, Timestamp and the          *)
(* NetworkLayer interface value are stored in the record itself.           *)
(***************************************************************************)
EXTENDS Integers, Sequences, FiniteSets, TLC

VARIABLES
    packets,     \* frame id -> the decoded frame (gopacket.Packet) with its layers, as they are now
    reported,    \* frame id -> the TCP header-length word count the decoder reported (history)
    pc,          \* call id -> position of that ParsePacket call
    callFrame,   \* call id -> the frame the call was given (0: none yet)
    pckt,        \* call id -> the named result pckt of the call
    err,         \* call id -> the named result err of the call
    reg,         \* call id -> the value loaded by the read half of `pckt.DataOffset *= 4`
    accessed,    \* the last accessor call made on a returned record, and how it ended
    synPckt,     \* the TCP header (SYN, Options) SYNOptions is applied to
    synResult    \* what SYNOptions returned for synPckt

vars == <<packets, reported, pc, callFrame, pckt, err, reg, accessed, synPckt, synResult>>

parseVars == <<packets, reported, pc, callFrame, pckt, err, reg, accessed>>
synVars == <<synPckt, synResult>>

-----------------------------------------------------------------------------
(* Bounds *)

MaxCalls == 3       \* ParsePacket calls made one after the other in Spec
MaxOpts == 2        \* TCP options in a header SYNOptions scans
MaxData == 2        \* bytes of data in one TCP option

SeqFrames == {1}     \* frames of the sequential specification
ConcFrames == {1, 2} \* frames (and calls) of the concurrent specification

-----------------------------------------------------------------------------
(* Program constants *)

IPv6HeaderLen == 40
TCPOptionKindMSS == 2
TCPOptionKindWindowScale == 3

\* the option kinds of the modelled headers: MSS, Window-Scale and one other kind (1, NOP)
OptionKinds == {TCPOptionKindMSS, TCPOptionKindWindowScale, 1}

\* uint8 and uint16 conversions and arithmetic wrap
U8(x) == x % 256
U16(x) == x % 65536

-----------------------------------------------------------------------------
(* The decoded frame *)

NilNet == [type |-> "nil", IHL |-> 0, Length |-> 0]
OtherNet == [type |-> "other", IHL |-> 0, Length |-> 0]
OtherTransport == [type |-> "other", DataOffset |-> 0, payloadLen |-> 0, SYN |-> FALSE, Options |-> <<>>]

ErrorLayers == {"nil", "DecodeFailure", "other"}

Lengths == {20, 60, 200, 65535}
WordCounts == {0, 5, 15}
PayloadLens == {0, 15, 20}

NetLayers ==
    {[type |-> "IPv4", IHL |-> i, Length |-> l] : i \in {5, 6}, l \in Lengths}
    \cup {[type |-> "IPv6", IHL |-> 0, Length |-> l] : l \in Lengths}
    \cup {OtherNet}

Option(t, l, d) == [OptionType |-> t, OptionLength |-> l, OptionData |-> d]

HeaderFlags ==
    { [SYN |-> FALSE, Options |-> <<>>],
      [SYN |-> TRUE, Options |-> << Option(TCPOptionKindMSS, 4, <<5, 180>>) >>],
      [SYN |-> TRUE, Options |-> << Option(TCPOptionKindWindowScale, 3, <<7>>) >>] }

TransportLayers ==
    {[type |-> "TCP", DataOffset |-> w, payloadLen |-> n, SYN |-> h.SYN, Options |-> h.Options] :
        w \in WordCounts, n \in PayloadLens, h \in HeaderFlags}
    \cup {OtherTransport}

FrameSet ==
    [ts : {"zero", "captured"}, err : ErrorLayers, link : {"eth"},
     net : NetLayers, tcp : TransportLayers]

\* the frames of the concurrent specification: a part of FrameSet
ConcFrameSet ==
    {p \in FrameSet :
        /\ p.ts = "captured"
        /\ p.err \in {"nil", "DecodeFailure"}
        /\ p.net.IHL \in {0, 5} /\ p.net.Length \in {0, 60}
        /\ p.tcp.payloadLen \in {0, 15} /\ ~p.tcp.SYN /\ p.tcp.DataOffset \in {0, 5}}

-----------------------------------------------------------------------------
(* The Packet record *)

NilPacket ==
    [ptr |-> "nil", Timestamp |-> "zero", LinkLayer |-> "nil", NetworkLayer |-> NilNet,
     TCP |-> 0, DataLayer |-> "nil", Lost |-> 0]

\* new(Packet): every field zero
NewPacket == [NilPacket EXCEPT !.ptr = "new"]

-----------------------------------------------------------------------------
(* Accessors that ParsePacket itself uses.  p is a Packet record. *)

\* Version: a comma-ok type assertion, 6 for everything that is not *layers.IPv4
Version(p) == IF p.NetworkLayer.type = "IPv4" THEN 4 ELSE 6

\* IHL: uint8 l.IHL * 4 for IPv4, the constant 40 otherwise
IHL(p) == IF p.NetworkLayer.type = "IPv4" THEN U8(p.NetworkLayer.IHL * 4) ELSE IPv6HeaderLen

\* Length: the IPv4 Length, else the Length of NetworkLayer.(*layers.IPv6)
Length(p) == p.NetworkLayer.Length

\* the unchecked assertion NetworkLayer.(*layers.IPv6) panics on any other value
LengthPanics(p) == p.NetworkLayer.type \notin {"IPv4", "IPv6"}

-----------------------------------------------------------------------------
(* ParsePacket *)

\* the deferred function: err is set from the frame's error layer, pckt is left alone
DeferredErr(packet) ==
    CASE packet.err = "DecodeFailure" -> "DecodeFailure.Error"
      [] packet.err = "other" -> "ErrorLayer.Error"
      [] OTHER -> "nil"

\* pckt.Timestamp: the frame's, or time.Now() when that is the zero time
InitTimestamp(packet) == IF packet.ts = "zero" THEN "now" ELSE packet.ts

\* pckt.DataOffset *= 4 on a uint8
MulDataOffset(d) == U8(d * 4)

\* packet.ApplicationLayer(): the payload layer, nil when there is no payload
ApplicationLayer(packet) == IF packet.tcp.payloadLen > 0 THEN "payload" ELSE "nil"

\* headerSize: DataOffset + IHL(), and DataOffset alone when Version() is 6
HeaderSizeWithIPHeader(p, dataOffset) == dataOffset + IHL(p)
HeaderSize(p, dataOffset) ==
    IF Version(p) = 6 THEN dataOffset ELSE dataOffset + IHL(p)

\* pckt.Lost = pckt.Length() - uint16(headerSize + len(pckt.Payload)), in uint16
LostBytes(p, dataOffset, payloadLen) ==
    U16(Length(p) - U16(HeaderSize(p, dataOffset) + payloadLen))

\* The whole function on frame f, whose layers are `packet`: the returned pckt
\* and err, and the frame as the call leaves it.
ParsePacket(f, packet) ==
    LET p0 == [NewPacket EXCEPT !.Timestamp = InitTimestamp(packet),
                                !.LinkLayer = packet.link]
        e == DeferredErr(packet)
    IN  IF packet.net.type \notin {"IPv4", "IPv6"}
        THEN [pckt |-> p0, err |-> e, packet |-> packet]
        ELSE LET p1 == [p0 EXCEPT !.NetworkLayer = packet.net]
             IN  IF packet.tcp.type # "TCP"
                 THEN [pckt |-> p1, err |-> e, packet |-> packet]
                 ELSE LET off == MulDataOffset(packet.tcp.DataOffset)
                          p2 == [p1 EXCEPT !.TCP = f,
                                           !.DataLayer = ApplicationLayer(packet),
                                           !.Lost = LostBytes(p1, off, packet.tcp.payloadLen)]
                      IN  [pckt |-> p2, err |-> e,
                           packet |-> [packet EXCEPT !.tcp.DataOffset = off]]

-----------------------------------------------------------------------------
(* SYNOptions *)

NoSYNOptions == [panic |-> FALSE, mss |-> 0, windowscale |-> 0]

\* binary.BigEndian.Uint16(b): the first two bytes, most significant first
BigEndianUint16(b) == b[1] * 256 + b[2]

\* uint16(1) << n: a shift count of 16 or more leaves 0
ShiftLeft16(n) == IF n >= 16 THEN 0 ELSE 2 ^ n

\* The loop over pckt.Options from option i on, acc holding mss and windowscale.
\* An index past the end of OptionData is a run-time panic, which ends the call.
RECURSIVE ScanOptions(_, _, _)
ScanOptions(opts, i, acc) ==
    IF i > Len(opts) THEN acc
    ELSE LET v == opts[i]
         IN  IF v.OptionType = TCPOptionKindMSS
             THEN IF Len(v.OptionData) < 2
                  THEN [acc EXCEPT !.panic = TRUE]
                  ELSE ScanOptions(opts, i + 1,
                                   [acc EXCEPT !.mss = BigEndianUint16(v.OptionData)])
             ELSE IF v.OptionType = TCPOptionKindWindowScale /\ v.OptionLength > 0
             THEN IF Len(v.OptionData) < 1
                  THEN [acc EXCEPT !.panic = TRUE]
                  ELSE ScanOptions(opts, i + 1,
                                   [acc EXCEPT !.windowscale = ShiftLeft16(v.OptionData[1])])
             ELSE ScanOptions(opts, i + 1, acc)

\* SYNOptions on a TCP header h (its SYN flag and Options)
SYNOptions(h) ==
    IF ~h.SYN THEN NoSYNOptions ELSE ScanOptions(h.Options, 1, NoSYNOptions)

-----------------------------------------------------------------------------
(* The accessors of a returned record, as what calling them ends in *)

Accessors ==
    {"Version", "IHL", "Length", "SrcIP", "DestIP", "Src", "Dst", "SYNOptions", "Flag", "String"}

\* SrcIP, DestIP: NetworkLayer.(*layers.IPv4) when Version() is 4, else the
\* unchecked NetworkLayer.(*layers.IPv6)
AddressOutcome(p) ==
    IF Version(p) = 4 \/ p.NetworkLayer.type = "IPv6" THEN "ok" ELSE "failed type assertion"

\* a field of the embedded *layers.TCP (SrcPort, SYN, FIN, ...): a nil pointer traps
TCPFieldOutcome(p) == IF p.TCP = 0 THEN "nil dereference" ELSE "ok"

\* Src, Dst: the address first, then the port of the TCP layer
SocketOutcome(p) ==
    IF AddressOutcome(p) # "ok" THEN AddressOutcome(p) ELSE TCPFieldOutcome(p)

SYNOptionsOutcome(p) ==
    IF p.TCP = 0 THEN "nil dereference"
    ELSE IF SYNOptions(packets[p.TCP].tcp).panic THEN "index out of range"
    ELSE "ok"

AccessorOutcome(name, p) ==
    CASE name \in {"Version", "IHL"} -> "ok"
      [] name = "Length" -> IF LengthPanics(p) THEN "failed type assertion" ELSE "ok"
      [] name \in {"SrcIP", "DestIP"} -> AddressOutcome(p)
      [] name \in {"Src", "Dst", "String"} -> SocketOutcome(p)
      [] name = "SYNOptions" -> SYNOptionsOutcome(p)
      [] name = "Flag" -> TCPFieldOutcome(p)

-----------------------------------------------------------------------------
(* Sequential specification: whole calls of ParsePacket, one after the other,
   on the same decoded frame, and accessor calls on the records returned. *)

NoAccess == [call |-> 0, name |-> "none", outcome |-> "none"]
NoHeader == [SYN |-> FALSE, Options |-> <<>>]
NotCalled == [called |-> FALSE, panic |-> FALSE, mss |-> 0, windowscale |-> 0]

Calls == DOMAIN pc
Frames == DOMAIN packets

InitCalls(ids) ==
    /\ pc = [c \in ids |-> "idle"]
    /\ callFrame = [c \in ids |-> 0]
    /\ pckt = [c \in ids |-> NilPacket]
    /\ err = [c \in ids |-> "nil"]
    /\ reg = [c \in ids |-> 0]
    /\ accessed = NoAccess

Init ==
    /\ packets \in [SeqFrames -> FrameSet]
    /\ reported = [f \in SeqFrames |-> packets[f].tcp.DataOffset]
    /\ InitCalls(1 .. MaxCalls)
    /\ synPckt = NoHeader
    /\ synResult = NotCalled

\* call c: ParsePacket(packets[f]), from entry to return
ParseCall(c, f) ==
    /\ pc[c] = "idle"
    /\ \A d \in Calls : d < c => pc[d] = "done"
    /\ LET r == ParsePacket(f, packets[f])
       IN  /\ pckt' = [pckt EXCEPT ![c] = r.pckt]
           /\ err' = [err EXCEPT ![c] = r.err]
           /\ packets' = [packets EXCEPT ![f] = r.packet]
    /\ pc' = [pc EXCEPT ![c] = "done"]
    /\ callFrame' = [callFrame EXCEPT ![c] = f]
    /\ UNCHANGED <<reported, reg, accessed, synVars>>

\* the caller of call c, having seen a nil error, calls accessor `name` on the record
Access(c, name) ==
    /\ pc[c] = "done"
    /\ err[c] = "nil"
    /\ accessed' = [call |-> c, name |-> name, outcome |-> AccessorOutcome(name, pckt[c])]
    /\ UNCHANGED <<packets, reported, pc, callFrame, pckt, err, reg, synVars>>

Next ==
    \/ \E c \in Calls, f \in Frames : ParseCall(c, f)
    \/ \E c \in Calls, name \in Accessors : Access(c, name)

Spec == Init /\ [][Next]_vars

-----------------------------------------------------------------------------
(* Concurrent specification: one ParsePacket call per frame, each call a
   sequence of steps, the steps of different calls interleaved. *)

InitConc ==
    /\ packets \in [ConcFrames -> ConcFrameSet]
    /\ reported = [f \in ConcFrames |-> packets[f].tcp.DataOffset]
    /\ InitCalls(ConcFrames)
    /\ synPckt = NoHeader
    /\ synResult = NotCalled

\* the frame whose transport layer packet.TransportLayer() hands to call c: its own
TransportLayerShared(c) == 1
TransportLayer(c) == callFrame[c]

\* lines 50-58: a call starts on a frame no other call was given
Begin(c, f) ==
    /\ pc[c] = "idle"
    /\ \A d \in Calls : callFrame[d] # f
    /\ callFrame' = [callFrame EXCEPT ![c] = f]
    /\ pckt' = [pckt EXCEPT ![c] = [NewPacket EXCEPT !.Timestamp = InitTimestamp(packets[f]),
                                                     !.LinkLayer = packets[f].link]]
    /\ pc' = [pc EXCEPT ![c] = "net"]
    /\ UNCHANGED <<packets, reported, err, reg, accessed, synVars>>

\* lines 60-67
StepNetwork(c) ==
    /\ pc[c] = "net"
    /\ LET n == packets[callFrame[c]].net
       IN  IF n.type \in {"IPv4", "IPv6"}
           THEN /\ pckt' = [pckt EXCEPT ![c].NetworkLayer = n]
                /\ pc' = [pc EXCEPT ![c] = "tcp"]
           ELSE /\ pc' = [pc EXCEPT ![c] = "defer"]
                /\ UNCHANGED pckt
    /\ UNCHANGED <<packets, reported, callFrame, err, reg, accessed, synVars>>

\* lines 69-74
StepTransport(c) ==
    /\ pc[c] = "tcp"
    /\ IF packets[TransportLayer(c)].tcp.type = "TCP"
       THEN /\ pckt' = [pckt EXCEPT ![c].TCP = TransportLayer(c)]
            /\ pc' = [pc EXCEPT ![c] = "load"]
       ELSE /\ pc' = [pc EXCEPT ![c] = "defer"]
            /\ UNCHANGED pckt
    /\ UNCHANGED <<packets, reported, callFrame, err, reg, accessed, synVars>>

\* line 75, the read of pckt.DataOffset
StepLoad(c) ==
    /\ pc[c] = "load"
    /\ reg' = [reg EXCEPT ![c] = packets[pckt[c].TCP].tcp.DataOffset]
    /\ pc' = [pc EXCEPT ![c] = "store"]
    /\ UNCHANGED <<packets, reported, callFrame, pckt, err, accessed, synVars>>

\* line 75, the write of pckt.DataOffset
StepStore(c) ==
    /\ pc[c] = "store"
    /\ packets' = [packets EXCEPT ![pckt[c].TCP].tcp.DataOffset = MulDataOffset(reg[c])]
    /\ pc' = [pc EXCEPT ![c] = "app"]
    /\ UNCHANGED <<reported, callFrame, pckt, err, reg, accessed, synVars>>

\* lines 77-78
StepApplication(c) ==
    /\ pc[c] = "app"
    /\ pckt' = [pckt EXCEPT ![c].DataLayer = ApplicationLayer(packets[callFrame[c]])]
    /\ pc' = [pc EXCEPT ![c] = "lost"]
    /\ UNCHANGED <<packets, reported, callFrame, err, reg, accessed, synVars>>

\* lines 80-87
StepLost(c) ==
    /\ pc[c] = "lost"
    /\ LET t == packets[pckt[c].TCP].tcp
       IN  pckt' = [pckt EXCEPT ![c].Lost = LostBytes(pckt[c], t.DataOffset, t.payloadLen)]
    /\ pc' = [pc EXCEPT ![c] = "defer"]
    /\ UNCHANGED <<packets, reported, callFrame, err, reg, accessed, synVars>>

\* lines 39-48, run at every return
StepDefer(c) ==
    /\ pc[c] = "defer"
    /\ err' = [err EXCEPT ![c] = DeferredErr(packets[callFrame[c]])]
    /\ pc' = [pc EXCEPT ![c] = "done"]
    /\ UNCHANGED <<packets, reported, callFrame, pckt, reg, accessed, synVars>>

NextConc ==
    \/ \E c \in Calls, f \in Frames : Begin(c, f)
    \/ \E c \in Calls : StepNetwork(c)
    \/ \E c \in Calls : StepTransport(c)
    \/ \E c \in Calls : StepLoad(c)
    \/ \E c \in Calls : StepStore(c)
    \/ \E c \in Calls : StepApplication(c)
    \/ \E c \in Calls : StepLost(c)
    \/ \E c \in Calls : StepDefer(c)

SpecConc == InitConc /\ [][NextConc]_vars

-----------------------------------------------------------------------------
(* SYNOptions specification: the function applied to every header of the
   bounded set below. *)

Bytes == {5, 180, 7, 16}

OptionDatas == UNION {[1 .. n -> Bytes] : n \in 0 .. MaxData}

\* an option as the decoder builds it (declared length = 2 + data length), or
\* with its declared length left zero
OptionSet ==
    {Option(t, 0, d) : t \in OptionKinds, d \in OptionDatas} \cup
    {Option(t, Len(d) + 2, d) : t \in OptionKinds, d \in OptionDatas}

OptionLists == UNION {[1 .. n -> OptionSet] : n \in 0 .. MaxOpts}

InitSyn ==
    /\ synPckt \in [SYN : BOOLEAN, Options : OptionLists]
    /\ synResult = NotCalled
    /\ packets = [f \in {} |-> OtherNet]
    /\ reported = [f \in {} |-> 0]
    /\ InitCalls({})

CallSYNOptions ==
    /\ ~synResult.called
    /\ LET r == SYNOptions(synPckt)
       IN  synResult' = [called |-> TRUE, panic |-> r.panic, mss |-> r.mss,
                         windowscale |-> r.windowscale]
    /\ UNCHANGED <<synPckt, parseVars>>

NextSyn == CallSYNOptions

SpecSyn == InitSyn /\ [][NextSyn]_vars

-----------------------------------------------------------------------------
(* Properties *)

Returned(c) == pc[c] = "done"
JustReturned(c) == pc[c] # "done" /\ pc'[c] = "done"
FrameOf(c) == packets[callFrame[c]]

\* a record with both its network layer and its TCP layer set
Full(p) == p.ptr # "nil" /\ p.NetworkLayer.type # "nil" /\ p.TCP # 0

Max(S) == CHOOSE x \in S : \A y \in S : y <= x

\* C1: when the decoder reports an error for the frame, ParsePacket returns an
\* error and no record with it.
C1_NoRecordWithError ==
    \A c \in Calls :
        Returned(c) /\ FrameOf(c).err # "nil" =>
            err[c] # "nil" /\ pckt[c].ptr = "nil"

\* C2: for a frame without decoder error that is not TCP over IPv4/IPv6,
\* ParsePacket returns no error, and the record has its network layer and its
\* transport either both set or both unset.
C2_SkipIsNeverPartial ==
    \A c \in Calls :
        ( /\ Returned(c)
          /\ FrameOf(c).err = "nil"
          /\ \/ FrameOf(c).net.type \notin {"IPv4", "IPv6"}
             \/ FrameOf(c).tcp.type # "TCP" )
        => /\ err[c] = "nil"
           /\ (pckt[c].NetworkLayer.type = "nil") <=> (pckt[c].TCP = 0)

\* the header size and payload length the claims subtract, for a full record p
\* whose TCP layer is t
ClaimHeader(p, t) ==
    IF p.NetworkLayer.type = "IPv4"
    THEN t.DataOffset + p.NetworkLayer.IHL * 4
    ELSE t.DataOffset

C4_NegativeLossNotWrapped ==
    [][ \A c \in Calls :
          JustReturned(c) /\ Full(pckt'[c]) =>
            LET p == pckt'[c]
                t == packets'[p.TCP].tcp
                h == ClaimHeader(p, t)
            IN  p.NetworkLayer.Length < h + t.payloadLen
                  => p.Lost # (p.NetworkLayer.Length - h - t.payloadLen) % 65536
      ]_vars

\* C5: ParsePacket leaves every field of the frame's layers as it was (the TCP
\* layer's header-length word count is what the decoder reported), and two calls
\* on the same frame return records with equal fields.
C5_ParseHasNoSideEffects ==
    /\ \A f \in Frames : packets[f].tcp.DataOffset = reported[f]
    /\ \A c, d \in Calls :
        Returned(c) /\ Returned(d) /\ callFrame[c] = callFrame[d] =>
            /\ pckt[c].Lost = pckt[d].Lost
            /\ pckt[c].NetworkLayer = pckt[d].NetworkLayer
            /\ pckt[c].TCP = pckt[d].TCP
            /\ pckt[c].DataLayer = pckt[d].DataLayer
            /\ pckt[c].LinkLayer = pckt[d].LinkLayer

\* C6: in every full record ParsePacket returns, after any sequence of calls,
\* data_offset is a multiple of 4 and is 4 times the header-length word count
\* the decoder reported for the frame.
C6_DataOffsetIsFourTimesWords ==
    [][ \A c \in Calls :
          JustReturned(c) /\ Full(pckt'[c]) =>
            LET d == packets'[pckt'[c].TCP].tcp.DataOffset
            IN  d % 4 = 0 /\ d = 4 * reported[pckt'[c].TCP]
      ]_vars

\* the MSS and the scale the claim C7 gives for a list of options
ClaimMSSIs(mss, opts) ==
    LET idx == {i \in 1 .. Len(opts) : opts[i].OptionType = TCPOptionKindMSS}
    IN  IF idx = {} THEN mss = 0
        ELSE LET b == opts[Max(idx)].OptionData
             IN  Len(b) >= 2 /\ mss = b[1] * 256 + b[2]

\* scale = 2^n; the returned scale is below 2^16, so no n above 30 can give it
ClaimScaleIs(scale, opts) ==
    LET idx == {i \in 1 .. Len(opts) :
                    /\ opts[i].OptionType = TCPOptionKindWindowScale
                    /\ opts[i].OptionLength > 0}
    IN  IF idx = {} THEN scale = 0
        ELSE LET b == opts[Max(idx)].OptionData
             IN  Len(b) >= 1 /\ b[1] <= 30 /\ scale = 2 ^ b[1]

\* C7: whenever SYNOptions returns, the result is (0, 0) without the SYN flag,
\* and with it the MSS is the big-endian value of the last MSS option (0 if
\* none) and the scale is 2^n for the data byte n of the last Window-Scale
\* option of nonzero declared length (0 if none).
C7_SYNOptionsValues ==
    synResult.called /\ ~synResult.panic =>
        IF ~synPckt.SYN
        THEN synResult.mss = 0 /\ synResult.windowscale = 0
        ELSE /\ ClaimMSSIs(synResult.mss, synPckt.Options)
             /\ ClaimScaleIs(synResult.windowscale, synPckt.Options)

\* C8: SYNOptions returns a result for every header; it never panics.
C8_SYNOptionsNeverPanics ==
    synResult.called => ~synResult.panic

\* C9: every call of an interleaved run on independent frames returns what
\* ParsePacket, run alone on the frame as decoded, returns, and leaves the frame
\* as that run leaves it.
C9_ConcurrentAsSequential ==
    \A c \in Calls :
        Returned(c) =>
            LET f == callFrame[c]
                decoded == [packets[f] EXCEPT !.tcp.DataOffset = reported[f]]
                r == ParsePacket(f, decoded)
            IN  /\ pckt[c] = r.pckt
                /\ err[c] = r.err
                /\ packets[f] = r.packet

\* C9 witness: a call has returned a full record while another call, on another
\* TCP frame, is between its read and its write of DataOffset.
C9_Witness ==
    \E c, d \in Calls :
        /\ c # d
        /\ Returned(c) /\ Full(pckt[c])
        /\ pc[d] = "store"
        /\ callFrame[c] # callFrame[d]

\* C10: after ParsePacket returned a nil error, no accessor of the record ends
\* in a nil dereference or a failed type assertion.
C10_AccessorsSafeAfterNilError ==
    accessed.outcome \notin {"nil dereference", "failed type assertion"}

====
